---- MODULE Spec2Model ----
(***************************************************************************)
(* A model of the QuestAPI session lifecycle: the SessionManager of         *)
(* api/session_manager.py, the Scraper registry of api/scraper/scraper.py,  *)
(* the course cache of api/database/db.py and the websocket protocol        *)
(* layer of api/websocket.py.                                               *)
(*                                                                          *)
(* Spec   : connections whose session object is a SessionManager, driven    *)
(*          by the command loop of api/websocket.py.                        *)
(* WsSpec : connections handled by api/websocket.py as it stands, with a    *)
(*          Scraper under a TokenManager (api/token_manager.py).            *)
(*                                                                          *)
(* A token is modelled by its string, whether the code holds it as a str    *)
(* or as a TokenManager.                                                    *)
(***************************************************************************)
EXTENDS Integers, Sequences, FiniteSets, TLC

(*************************** bounds of the model ***************************)
NConns == 2        \* connection attempts (one SessionManager each)
MaxCmds == 2       \* commands answered in one run, over all connections
TimeStep == 300    \* seconds by which one Tick advances the clock
MaxIdle == 450     \* idle times saturate here (anything above prune_interval)

(**************************** program constants ****************************)
prune_interval == 300
CRITICAL == -2
ERROR == -1
STATUS == 0
SUCCESS == 1
PARTIAL_SUCCESS == 2
CLOSE_NORMAL == 1000
CLOSE_PROTOCOL == 1002
CLOSE_INTERNAL == 1011

Conns == 1..NConns
Users == {"alice", "bob"}
\* secrets.token_urlsafe(16) is the DEFAULT ARGUMENT of SessionManager.__init__:
\* Python evaluates it once, when the class body is executed, so every
\* SessionManager() of one process starts with this one token.
DefaultToken == "t0"
\* "t1": a token persisted by an earlier run of the server (db.load_users);
\* "tx": a string no run ever issued.
Tokens == {"t0", "t1", "tx"}
DuoCodes == {"123456"}
Keys == {"2024 CS 101"}

(******************************* course cache ******************************)
\* Section(section_type, section_number, location, instructor)
Sec(ty, nr, loc, ins) ==
    [section_type |-> ty, section_number |-> nr, location |-> loc, instructor |-> ins]

\* What the resource query can produce for a key: lists of sections.
QueryResults ==
    { << Sec("LEC", "001", "MC 2065", "Prof X"), Sec("TUT", "002", "MC 2066", "Prof Y") >>,
      << Sec("LEC", "001", "MC 4020", "Prof Z") >> }

\* Section.get_section_name: f"{section_type} {section_number}"
get_section_name(s) == << s.section_type, s.section_number >>

\* Section.get_section_info: {name: [location, instructor]}
get_section_info(s) == get_section_name(s) :> << s.location, s.instructor >>

\* Course.get_sections: dict.update over the sections in order (a later
\* section with the same name replaces an earlier one).
RECURSIVE get_sections(_)
get_sections(sections) ==
    IF sections = << >> THEN << >>
    ELSE LET n == Len(sections)
         IN  get_section_info(sections[n]) @@ get_sections(SubSeq(sections, 1, n - 1))

NoCourse == [present |-> FALSE, sections |-> << >>]
\* Course(term, subject, code) with no section added: the NoResults entry.
EmptyCourse == [present |-> TRUE, sections |-> << >>]
CourseOf(sections) == [present |-> TRUE, sections |-> sections]

\* db.get_course_info: the row for the key, or None.
get_course_info(cs, k) == cs[k]

\* db.upsert_course_info: session.add + commit. An existing row with the same
\* primary key makes the INSERT fail; the SQLAlchemyError is logged and
\* swallowed, so the stored row stays as it was.
upsert_course_info(cs, k, course) ==
    IF cs[k].present THEN cs ELSE [cs EXCEPT ![k] = course]

(**************************** the known_users dict *************************)
\* known_users is a Python dict {username: token}: insertion ordered.
KUHas(ku, u) == \E i \in 1..Len(ku) : ku[i].user = u
KUGet(ku, u) == ku[CHOOSE i \in 1..Len(ku) : ku[i].user = u].token
KUValues(ku) == { ku[i].token : i \in 1..Len(ku) }
KUSet(ku, u, t) ==
    IF KUHas(ku, u)
    THEN [i \in 1..Len(ku) |-> IF ku[i].user = u THEN [user |-> u, token |-> t] ELSE ku[i]]
    ELSE Append(ku, [user |-> u, token |-> t])
\* next((key for key, value in known_users.items() if value == token), None)
\* followed by del known_users[key]: only the FIRST matching key goes.
KUFirst(ku, t) ==
    IF t \in KUValues(ku)
    THEN CHOOSE i \in 1..Len(ku) : ku[i].token = t /\ \A j \in 1..(i-1) : ku[j].token # t
    ELSE 0
KUDelFirst(ku, t) ==
    LET i == KUFirst(ku, t)
    IN  IF i = 0 THEN ku ELSE SubSeq(ku, 1, i - 1) \o SubSeq(ku, i + 1, Len(ku))

(********************************* state ***********************************)
VARIABLES
    known_users,   \* session_manager.known_users
    cookies,       \* tokens with a row of persisted cookies (db users table)
    courses,       \* the course cache (db courses table), by key
    driver_list,   \* Scraper.driver_list: token -> driver id, 0 = no entry
    drivers,       \* every WebDriver created: [token, live]
    token,         \* SessionManager.token
    scraper,       \* SessionManager.scraper: None, a Scraper, or deleted
    active,        \* SessionManager.active
    heartbeat,     \* SessionManager.heartbeat (the asyncio task)
    idle,          \* now - last_accessed of the session's Scraper
    pc,            \* where the connection's handler is
    user,          \* create_user's user argument
    remember_me,   \* create_user's remember_me argument
    duo_auth_code, \* create_user's local duo_auth_code
    key,           \* the (term, subject, code) of the search in flight
    ncmd,          \* commands answered so far
    sent,          \* the envelopes sent during the handshake, in order
    reply,         \* the envelope that answered the latest command
    close_code,    \* the close code, 0 while open
    close_reason   \* the close reason

vars == << known_users, cookies, courses, driver_list, drivers, token, scraper,
           active, heartbeat, idle, pc, user, remember_me, duo_auth_code, key,
           ncmd, sent, reply, close_code, close_reason >>

\* SessionManager.scraper: None after __init__, a driver id while it holds a
\* Scraper, Deleted after `del self.scraper`.
NoScraper == 0
Deleted == -1

Envelope(status, text, sections) ==
    [status |-> status, payload |-> [text |-> text, sections |-> sections]]
\* No command answered yet.
NoReply == Envelope(STATUS, "", << >>)

LiveDrivers == { d \in 1..Len(drivers) : drivers[d].live }
LiveFor(t) == { d \in LiveDrivers : drivers[d].token = t }
InFlight(c) == pc[c] \in {"sign_in", "duo_ack", "duo_auth", "searching"}
\* Connections are numbered in the order in which they are accepted.
Accepting(c) == pc[c] = "init" /\ \A b \in 1..(c - 1) : pc[b] # "init"

(************ SessionManager and Scraper, as state transformers ************)
\* The part of the state one SessionManager method can touch.
Cur(c) ==
    [ ku |-> known_users, ck |-> cookies, dl |-> driver_list, drv |-> drivers,
      tok |-> token[c], scr |-> scraper[c], act |-> active[c],
      hb |-> heartbeat[c], idle |-> idle[c] ]

Commit(c, s) ==
    /\ known_users' = s.ku
    /\ cookies' = s.ck
    /\ driver_list' = s.dl
    /\ drivers' = s.drv
    /\ token' = [token EXCEPT ![c] = s.tok]
    /\ scraper' = [scraper EXCEPT ![c] = s.scr]
    /\ active' = [active EXCEPT ![c] = s.act]
    /\ heartbeat' = [heartbeat EXCEPT ![c] = s.hb]
    /\ idle' = [idle EXCEPT ![c] = s.idle]

\* Scraper.__init__ / Scraper.__ini_driver: a new WebDriver is started and
\* stored under the token; an entry already there is overwritten, the driver
\* it named is not quit.
Scraper(s) ==
    LET d == Len(s.drv) + 1
    IN  [s EXCEPT !.drv = Append(s.drv, [token |-> s.tok, live |-> TRUE]),
                  !.dl = [s.dl EXCEPT ![s.tok] = d],
                  !.scr = d]

\* Scraper.__idle_refresh
idle_refresh(s) == [s EXCEPT !.idle = 0]

\* Scraper.__dump_cookies -> db.save_cookies
dump_cookies(s) == [s EXCEPT !.ck = s.ck \cup {s.tok}]

\* A create_scraper that starts no heartbeat task.
create_scraper_unwatched(s) == [Scraper(s) EXCEPT !.act = TRUE]

\* SessionManager.create_scraper (called with active = False only)
create_scraper(s) == [Scraper(s) EXCEPT !.act = TRUE, !.hb = "running"]

\* A remove_scraper that also quits the driver and takes it out of driver_list.
remove_scraper_quit(s) ==
    IF s.act
    THEN [s EXCEPT !.drv = [d \in 1..Len(s.drv) |->
                               IF d = s.scr THEN [s.drv[d] EXCEPT !.live = FALSE]
                               ELSE s.drv[d]],
                   !.dl = [t \in DOMAIN s.dl |-> IF s.dl[t] = s.scr THEN 0 ELSE s.dl[t]],
                   !.scr = Deleted, !.act = FALSE, !.hb = "cancelled", !.idle = 0]
    ELSE s

\* SessionManager.remove_scraper: `del self.scraper` drops the session's
\* reference. Scraper has no finalizer and the class-level driver_list still
\* holds the WebDriver: nothing is quit, nothing leaves driver_list.
\* (idle, the age of the session's Scraper, has no meaning without one.)
remove_scraper(s) ==
    IF s.act
    THEN [s EXCEPT !.scr = Deleted, !.act = FALSE, !.hb = "cancelled", !.idle = 0]
    ELSE s

\* SessionManager.handle_sign_out
handle_sign_out(s) ==
    LET s1 == [s EXCEPT !.ku = KUDelFirst(s.ku, s.tok),   \* del known_users[...]
                        !.ck = s.ck \ {s.tok}]            \* db.remove_user
        s2 == IF s1.act THEN remove_scraper(s1) ELSE s1
    IN  [s2 EXCEPT !.act = FALSE]

\* An __exit__ that signs every session out, remembered or not.
exit_sign_out(s) == handle_sign_out(s)

\* SessionManager.__exit__
exit(s) ==
    IF s.tok \notin KUValues(s.ku) THEN handle_sign_out(s) ELSE remove_scraper(s)

\* SessionManager.reconnect_user: does the token pass?
reconnect_ok(s) == s.tok \in KUValues(s.ku)

(********************************* Init ************************************)
\* known_users = db.load_users(): empty, or what an earlier run left behind.
Init ==
    /\ \E earlier \in BOOLEAN :
          /\ known_users = IF earlier THEN << [user |-> "alice", token |-> "t1"] >> ELSE << >>
          /\ cookies = IF earlier THEN {"t1"} ELSE {}
    /\ courses = [k \in Keys |-> NoCourse]
    /\ driver_list = [t \in Tokens |-> 0]
    /\ drivers = << >>
    /\ token = [c \in Conns |-> DefaultToken]
    /\ scraper = [c \in Conns |-> NoScraper]
    /\ active = [c \in Conns |-> FALSE]
    /\ heartbeat = [c \in Conns |-> "none"]
    /\ idle = [c \in Conns |-> 0]
    /\ pc = [c \in Conns |-> "init"]
    /\ user = [c \in Conns |-> "alice"]
    /\ remember_me = [c \in Conns |-> FALSE]
    /\ duo_auth_code = [c \in Conns |-> ""]
    /\ key = [c \in Conns |-> "2024 CS 101"]
    /\ ncmd = [c \in Conns |-> 0]
    /\ sent = [c \in Conns |-> << >>]
    /\ reply = [c \in Conns |-> NoReply]
    /\ close_code = [c \in Conns |-> 0]
    /\ close_reason = [c \in Conns |-> ""]

(************************* the connection handler **************************)
Send(c, env) == sent' = [sent EXCEPT ![c] = Append(sent[c], env)]
Reply(c, env) == reply' = [reply EXCEPT ![c] = env]

\* connect's exception handlers: the `with` block is left first (__exit__),
\* then the channel is closed with the code of the cause.
CloseWith(c, code, reason) ==
    /\ pc' = [pc EXCEPT ![c] = "closed"]
    /\ close_code' = [close_code EXCEPT ![c] = code]
    /\ close_reason' = [close_reason EXCEPT ![c] = reason]

StayOpen == UNCHANGED << close_code, close_reason >>

\* create_user returned or raised: its arguments and locals are gone.
LoginOver(c) ==
    /\ user' = [user EXCEPT ![c] = "alice"]
    /\ remember_me' = [remember_me EXCEPT ![c] = FALSE]
    /\ duo_auth_code' = [duo_auth_code EXCEPT ![c] = ""]

\* SessionManager.create_user up to its first suspension.
\* A remembered user takes the reconnect path with the remembered token;
\* otherwise a Scraper is created and scraper.sign_in starts.
create_user_begin(s, u) ==
    IF KUHas(s.ku, u)
    THEN [s EXCEPT !.tok = KUGet(s.ku, u)]
    ELSE idle_refresh(create_scraper(s))

\* /login: identity, credentials and the remember flag are read, then
\* session.create_user runs.
Login(c, u, r) ==
    /\ Accepting(c)
    /\ LET s == create_user_begin(Cur(c), u)
       IN  /\ Commit(c, s)
           /\ IF KUHas(known_users, u)
              THEN /\ pc' = [pc EXCEPT ![c] = "serving"]
                   /\ Send(c, Envelope(SUCCESS, s.tok, << >>))
              ELSE /\ pc' = [pc EXCEPT ![c] = "sign_in"]
                   /\ UNCHANGED sent
    /\ IF KUHas(known_users, u)
       THEN UNCHANGED << user, remember_me >>
       ELSE /\ user' = [user EXCEPT ![c] = u]
            /\ remember_me' = [remember_me EXCEPT ![c] = r]
    /\ StayOpen
    /\ UNCHANGED << courses, duo_auth_code, key, ncmd, reply >>

\* A create_user that never records the identity.
create_user_finish_forget(s, u, r) == s

\* create_user after a successful authentication: remember, return the token.
create_user_finish(s, u, r) ==
    IF r THEN [s EXCEPT !.ku = KUSet(s.ku, u, s.tok)] ELSE s

\* create_user's except branch, then the `with` block's exit.
create_user_fail(s) == exit(handle_sign_out(s))

\* scraper.sign_in raised UserAuthenticationException.
SignInFailed(c) ==
    /\ pc[c] = "sign_in"
    /\ Commit(c, create_user_fail(Cur(c)))
    /\ CloseWith(c, CLOSE_PROTOCOL, "Sign in failed, check username and password")
    /\ LoginOver(c)
    /\ UNCHANGED << courses, key, ncmd, sent, reply >>

\* scraper.sign_in returned None: the browser landed on the homepage, the
\* cookies are dumped.
SignInNoDuo(c) ==
    /\ pc[c] = "sign_in"
    /\ LET s == create_user_finish(dump_cookies(Cur(c)), user[c], remember_me[c])
       IN  /\ Commit(c, s)
           /\ Send(c, Envelope(SUCCESS, s.tok, << >>))
    /\ pc' = [pc EXCEPT ![c] = "serving"]
    /\ StayOpen
    /\ LoginOver(c)
    /\ UNCHANGED << courses, key, ncmd, reply >>

\* scraper.sign_in returned a Duo code: the callback relays it to the client
\* as PARTIAL_SUCCESS.
SignInDuo(c, code) ==
    /\ pc[c] = "sign_in"
    /\ duo_auth_code' = [duo_auth_code EXCEPT ![c] = code]
    /\ Send(c, Envelope(PARTIAL_SUCCESS, code, << >>))
    /\ pc' = [pc EXCEPT ![c] = "duo_ack"]
    /\ StayOpen
    /\ UNCHANGED << known_users, cookies, courses, driver_list, drivers, token,
                    scraper, active, heartbeat, idle, user, remember_me, key, ncmd, reply >>

\* The callback returns once the client has sent its next message;
\* scraper.duo_auth starts (it refreshes last_accessed).
DuoAck(c) ==
    /\ pc[c] = "duo_ack"
    /\ Commit(c, idle_refresh(Cur(c)))
    /\ pc' = [pc EXCEPT ![c] = "duo_auth"]
    /\ StayOpen
    /\ UNCHANGED << courses, user, remember_me, duo_auth_code, key, ncmd, sent, reply >>

\* Scraper.duo_auth succeeded: cookies are dumped when remember_me.
duo_auth_ok(s, r) == IF r THEN dump_cookies(s) ELSE s

DuoAuthPassed(c) ==
    /\ pc[c] = "duo_auth"
    /\ LET s == create_user_finish(duo_auth_ok(Cur(c), remember_me[c]),
                                   user[c], remember_me[c])
       IN  /\ Commit(c, s)
           /\ Send(c, Envelope(SUCCESS, s.tok, << >>))
    /\ pc' = [pc EXCEPT ![c] = "serving"]
    /\ StayOpen
    /\ LoginOver(c)
    /\ UNCHANGED << courses, key, ncmd, reply >>

\* Scraper.duo_auth timed out.
DuoAuthTimedOut(c) ==
    /\ pc[c] = "duo_auth"
    /\ Commit(c, create_user_fail(Cur(c)))
    /\ CloseWith(c, CLOSE_PROTOCOL, "Duo Auth timed out")
    /\ LoginOver(c)
    /\ UNCHANGED << courses, key, ncmd, sent, reply >>

\* /reconnect: the token is read and set, then session.reconnect_user runs.
set_token(s, t) == [s EXCEPT !.tok = t]

Reconnect(c, t) ==
    /\ Accepting(c)
    /\ LET s == set_token(Cur(c), t)
       IN  IF reconnect_ok(s)
           THEN /\ Commit(c, s)
                /\ Send(c, Envelope(SUCCESS, s.tok, << >>))
                /\ pc' = [pc EXCEPT ![c] = "serving"]
                /\ StayOpen
           ELSE /\ Commit(c, exit(s))
                /\ CloseWith(c, CLOSE_PROTOCOL, "Invalid token")
                /\ UNCHANGED sent
    /\ UNCHANGED << courses, user, remember_me, duo_auth_code, key, ncmd, reply >>

(****************************** command phase ******************************)
RECURSIVE Total(_, _)
Total(f, n) == IF n = 0 THEN 0 ELSE f[n] + Total(f, n - 1)
\* commands in flight count towards the bound
Started(c) == ncmd[c] + (IF pc[c] = "searching" THEN 1 ELSE 0)
Serving(c) ==
    /\ pc[c] = "serving"
    /\ Total([d \in Conns |-> Started(d)], NConns) < MaxCmds
Answered(c) == ncmd' = [ncmd EXCEPT ![c] = ncmd[c] + 1]

\* Scraper.recreate_session's verify_signed_on: the replayed cookies sign the
\* fresh browser on when there are cookies for the token and the remote side
\* still honours them.
recreate_signed_on(s, valid) == s.tok \in s.ck /\ valid

\* SessionManager.wake_scraper, up to recreate_session's verdict.
wake_scraper(s) ==
    IF s.act THEN s ELSE idle_refresh(create_scraper(s))

\* handle_search_classes, cache hit: result.get_sections() is returned and
\* sent as the SUCCESS payload. The session is not touched.
search_hit_response(course) == Envelope(SUCCESS, "", get_sections(course.sections))

\* A lookup that treats a stored course without sections as a miss.
search_needs_wake_empty(course) == ~course.present \/ course.sections = << >>

\* `if result is None`: only a key with no row at all goes to the resource.
search_needs_wake(course) == ~course.present

SearchHit(c, k) ==
    /\ Serving(c)
    /\ ~search_needs_wake(get_course_info(courses, k))
    /\ Reply(c, search_hit_response(get_course_info(courses, k)))
    /\ Answered(c)
    /\ StayOpen
    /\ UNCHANGED << known_users, cookies, courses, driver_list, drivers, token,
                    scraper, active, heartbeat, idle, pc, user, remember_me,
                    duo_auth_code, key, sent >>

\* handle_search_classes, cache miss: wake_scraper, then
\* schedule.search_classes starts on the session's Scraper.
SearchMiss(c, k, valid) ==
    /\ Serving(c)
    /\ search_needs_wake(get_course_info(courses, k))
    /\ active[c] \/ recreate_signed_on(Cur(c), valid)
    /\ Commit(c, idle_refresh(wake_scraper(Cur(c))))
    /\ pc' = [pc EXCEPT ![c] = "searching"]
    /\ key' = [key EXCEPT ![c] = k]
    /\ StayOpen
    /\ UNCHANGED << courses, user, remember_me, duo_auth_code, ncmd, sent, reply >>

\* wake_scraper's except branch: recreate_session found the login expired.
\* handle_sign_out, then SecurityError ends the connection.
SearchWakeExpired(c, k, valid) ==
    /\ Serving(c)
    /\ search_needs_wake(get_course_info(courses, k))
    /\ ~active[c]
    /\ ~recreate_signed_on(Cur(c), valid)
    /\ Commit(c, exit(handle_sign_out(wake_scraper(Cur(c)))))
    /\ CloseWith(c, CLOSE_PROTOCOL, "Session expired, sign in again")
    /\ UNCHANGED << courses, user, remember_me, duo_auth_code, key, ncmd, sent, reply >>

\* process_requests, case "SEARCH": session.handle_search_classes is entered
\* for key k on connection c.
SearchReceived(c, k) ==
    \/ SearchHit(c, k)
    \/ \E valid \in BOOLEAN : SearchMiss(c, k, valid) \/ SearchWakeExpired(c, k, valid)

\* schedule.search_classes returned a course: it is stored and its sections
\* are the SUCCESS payload.
SearchFound(c, r) ==
    /\ pc[c] = "searching"
    /\ courses' = upsert_course_info(courses, key[c], CourseOf(r))
    /\ Reply(c, Envelope(SUCCESS, "", get_sections(r)))
    /\ Answered(c)
    /\ key' = [key EXCEPT ![c] = "2024 CS 101"]
    /\ pc' = [pc EXCEPT ![c] = "serving"]
    /\ StayOpen
    /\ UNCHANGED << known_users, cookies, driver_list, drivers, token, scraper,
                    active, heartbeat, idle, user, remember_me, duo_auth_code, sent >>

\* schedule.search_classes, `except TimeoutException`: the page says that
\* nothing matches, or the wait failed for another reason.
ScheduleMessages == {"No results found", "Search failed unexpectedly"}

\* schedule.search_classes raised ScheduleException(msg). The handler does not
\* look at msg: an empty Course is stored, SessionException("No results
\* found") is reported as ERROR.
SearchScheduleRaised(c, msg) ==
    /\ pc[c] = "searching"
    /\ courses' = upsert_course_info(courses, key[c], EmptyCourse)
    /\ Reply(c, Envelope(ERROR, "No results found", << >>))
    /\ Answered(c)
    /\ key' = [key EXCEPT ![c] = "2024 CS 101"]
    /\ pc' = [pc EXCEPT ![c] = "serving"]
    /\ StayOpen
    /\ UNCHANGED << known_users, cookies, driver_list, drivers, token, scraper,
                    active, heartbeat, idle, user, remember_me, duo_auth_code, sent >>

SearchScheduleException(c) ==
    \E msg \in ScheduleMessages : SearchScheduleRaised(c, msg)

\* schedule.search_classes raised WebDriverException.
SearchWebDriverException(c) ==
    /\ pc[c] = "searching"
    /\ Reply(c, Envelope(ERROR, "Unexpected Error: Could not search classes", << >>))
    /\ Answered(c)
    /\ key' = [key EXCEPT ![c] = "2024 CS 101"]
    /\ pc' = [pc EXCEPT ![c] = "serving"]
    /\ StayOpen
    /\ UNCHANGED << known_users, cookies, courses, driver_list, drivers, token,
                    scraper, active, heartbeat, idle, user, remember_me,
                    duo_auth_code, sent >>

\* SIGN OUT: session.handle_sign_out, close, the loop ends, the `with` exits.
SignOut(c) ==
    /\ pc[c] = "serving"
    /\ Commit(c, exit(handle_sign_out(Cur(c))))
    /\ CloseWith(c, CLOSE_NORMAL, "")
    /\ UNCHANGED << courses, user, remember_me, duo_auth_code, key, ncmd, sent, reply >>

\* QUIT: close, the loop ends, the `with` exits.
Quit(c) ==
    /\ pc[c] = "serving"
    /\ Commit(c, exit(Cur(c)))
    /\ CloseWith(c, CLOSE_NORMAL, "")
    /\ UNCHANGED << courses, user, remember_me, duo_auth_code, key, ncmd, sent, reply >>

\* Any other message.
InvalidRequest(c) ==
    /\ Serving(c)
    /\ Reply(c, Envelope(ERROR, "Invalid request", << >>))
    /\ Answered(c)
    /\ StayOpen
    /\ UNCHANGED << known_users, cookies, courses, driver_list, drivers, token,
                    scraper, active, heartbeat, idle, pc, user, remember_me,
                    duo_auth_code, key, sent >>

(******************************** heartbeat ********************************)
\* last_accessed < now - prune_interval
too_idle(i) == i > prune_interval

\* A heartbeat that signs an idle session out instead of putting it to sleep.
heartbeat_tick_sign_out(s) ==
    IF s.scr = NoScraper THEN [s EXCEPT !.hb = "returned"]
    ELSE IF too_idle(s.idle) THEN [handle_sign_out(s) EXCEPT !.hb = "returned"]
    ELSE s

\* One pass of SessionManager.__heartbeat's loop, after its sleep.
heartbeat_tick(s) ==
    IF s.scr = NoScraper THEN [s EXCEPT !.hb = "returned"]
    ELSE IF too_idle(s.idle) THEN [remove_scraper(s) EXCEPT !.hb = "returned"]
    ELSE s

Heartbeat(c) ==
    /\ heartbeat[c] = "running"
    /\ Commit(c, heartbeat_tick(Cur(c)))
    /\ UNCHANGED << courses, pc, user, remember_me, duo_auth_code, key, ncmd,
                    sent, reply, close_code, close_reason >>

\* Time passes. The waits inside a handler (WebDriverWait of 10 s, Duo of
\* 60 s) are short against a TimeStep, so the clock moves only while no
\* handler is in the middle of a login or a search.
Min(a, b) == IF a < b THEN a ELSE b

Tick ==
    /\ \A c \in Conns : ~InFlight(c)
    /\ \E c \in Conns : scraper[c] > 0 /\ idle[c] < MaxIdle
    /\ idle' = [c \in Conns |-> IF scraper[c] > 0 THEN Min(idle[c] + TimeStep, MaxIdle)
                                ELSE idle[c]]
    /\ UNCHANGED << known_users, cookies, courses, driver_list, drivers, token,
                    scraper, active, heartbeat, pc, user, remember_me,
                    duo_auth_code, key, ncmd, sent, reply, close_code, close_reason >>

Next ==
    \/ \E c \in Conns, u \in Users, r \in BOOLEAN : Login(c, u, r)
    \/ \E c \in Conns : SignInFailed(c)
    \/ \E c \in Conns : SignInNoDuo(c)
    \/ \E c \in Conns, code \in DuoCodes : SignInDuo(c, code)
    \/ \E c \in Conns : DuoAck(c)
    \/ \E c \in Conns : DuoAuthPassed(c)
    \/ \E c \in Conns : DuoAuthTimedOut(c)
    \/ \E c \in Conns, t \in Tokens : Reconnect(c, t)
    \/ \E c \in Conns, k \in Keys : SearchHit(c, k)
    \/ \E c \in Conns, k \in Keys, valid \in BOOLEAN : SearchMiss(c, k, valid)
    \/ \E c \in Conns, k \in Keys, valid \in BOOLEAN : SearchWakeExpired(c, k, valid)
    \/ \E c \in Conns, r \in QueryResults : SearchFound(c, r)
    \/ \E c \in Conns : SearchScheduleException(c)
    \/ \E c \in Conns : SearchWebDriverException(c)
    \/ \E c \in Conns : SignOut(c)
    \/ \E c \in Conns : Quit(c)
    \/ \E c \in Conns : InvalidRequest(c)
    \/ \E c \in Conns : Heartbeat(c)
    \/ Tick

Spec == Init /\ [][Next]_vars

(***************************************************************************)
(* WsSpec: the connection handler of api/websocket.py as it stands, driving *)
(* a Scraper of api/scraper/scraper.py under a TokenManager of              *)
(* api/token_manager.py. Here known_users is common.known_users, token is   *)
(* TokenManager.token, scraper is Scraper.driver, active is Scraper.active  *)
(* and heartbeat is the heartbeat task of begin_connection_loop.            *)
(***************************************************************************)
Paths == {"/reconnect", "/login", "/other"}

\* common.driver_list: nothing in websocket.py, scraper.py or
\* token_manager.py ever stores a driver in it.
common_driver_list == {}

\* common.delete_session(token), on common.driver_list
delete_session(s) ==
    IF s.tok \notin common_driver_list THEN s
    ELSE [s EXCEPT !.drv = [d \in 1..Len(s.drv) |->
                               IF s.drv[d].token = s.tok
                               THEN [s.drv[d] EXCEPT !.live = FALSE] ELSE s.drv[d]]]

\* TokenManager.__exit__
TokenManager_exit(s) == delete_session(s)

\* A token that is announced as one more challenge.
token_response_partial(tok) == Envelope(PARTIAL_SUCCESS, tok, << >>)

\* send_websocket_response(websocket, SUCCESS, scraper.token.get_token())
token_response(tok) == Envelope(SUCCESS, tok, << >>)

\* common.known_users = {} when the module is loaded.
WsInit ==
    /\ known_users = << >>
    /\ cookies = {}
    /\ courses = [k \in Keys |-> NoCourse]
    /\ driver_list = [t \in Tokens |-> 0]
    /\ drivers = << >>
    /\ token = [c \in Conns |-> DefaultToken]
    /\ scraper = [c \in Conns |-> NoScraper]
    /\ active = [c \in Conns |-> FALSE]
    /\ heartbeat = [c \in Conns |-> "none"]
    /\ idle = [c \in Conns |-> 0]
    /\ pc = [c \in Conns |-> "init"]
    /\ user = [c \in Conns |-> "alice"]
    /\ remember_me = [c \in Conns |-> FALSE]
    /\ duo_auth_code = [c \in Conns |-> ""]
    /\ key = [c \in Conns |-> "2024 CS 101"]
    /\ ncmd = [c \in Conns |-> 0]
    /\ sent = [c \in Conns |-> << >>]
    /\ reply = [c \in Conns |-> NoReply]
    /\ close_code = [c \in Conns |-> 0]
    /\ close_reason = [c \in Conns |-> ""]

\* Scraper.__init__ under websocket.connect: the driver is started and
\* registered, Scraper.active = True.
WsScraper(s) == [Scraper(s) EXCEPT !.act = TRUE]

\* A way out of the `with` block that leaves the heartbeat task scheduled.
WsLeave_uncancelled(s) == TokenManager_exit(s)

\* The connection ends: the heartbeat task (if any) is cancelled or has
\* failed, the `with TokenManager()` block is left.
WsLeave(s) ==
    TokenManager_exit([s EXCEPT !.hb = IF s.hb = "running" THEN "cancelled" ELSE s.hb])

\* A dispatch that lets every path through.
known_path_any(path) == TRUE

\* connect: `if websocket.path == "/reconnect"`, `elif websocket.path == "/login"`
known_path(path) == path \in {"/reconnect", "/login"}

\* connect, up to the first receive: `with TokenManager() as token`,
\* `scraper = Scraper(token)`, then the path is looked at.
WsAccept(c, path) ==
    /\ Accepting(c)
    /\ LET s == WsScraper(Cur(c))
       IN  IF known_path(path)
           THEN /\ Commit(c, s)
                /\ pc' = [pc EXCEPT ![c] = IF path = "/login" THEN "login" ELSE "reconnect"]
                /\ StayOpen
           ELSE /\ Commit(c, WsLeave(s))
                /\ CloseWith(c, CLOSE_PROTOCOL, "Invalid path")
    /\ UNCHANGED << courses, user, remember_me, duo_auth_code, key, ncmd, sent, reply >>

\* reconnect_user: no token arrives within the timeout.
WsReconnectNoToken(c) ==
    /\ pc[c] = "reconnect"
    /\ Commit(c, WsLeave(Cur(c)))
    /\ CloseWith(c, CLOSE_PROTOCOL, "No token provided")
    /\ UNCHANGED << courses, user, remember_me, duo_auth_code, key, ncmd, sent, reply >>

\* TokenManager.verify_token
verify_token(s) == s.tok \in KUValues(s.ku)

\* reconnect_user with a token. For a registered token Scraper.recreate_session
\* runs: __load_cookies either finds no row (db.load_cookies subscripts None)
\* or adds the cookies through common.driver_list[token], which has no such
\* key; neither error is a UserAuthenticationException, so connect's last
\* handler closes the channel.
WsReconnect(c, t) ==
    /\ pc[c] = "reconnect"
    /\ LET s == set_token(Cur(c), t)
       IN  /\ Commit(c, WsLeave(s))
           /\ IF verify_token(s)
              THEN CloseWith(c, CLOSE_INTERNAL, "Internal server error")
              ELSE CloseWith(c, CLOSE_PROTOCOL, "Invalid token")
    /\ UNCHANGED << courses, user, remember_me, duo_auth_code, key, ncmd, sent, reply >>

\* create_user: one of its three receives times out.
WsLoginTimeout(c) ==
    /\ pc[c] = "login"
    /\ Commit(c, WsLeave(Cur(c)))
    /\ CloseWith(c, CLOSE_PROTOCOL, "Response timed out")
    /\ UNCHANGED << courses, user, remember_me, duo_auth_code, key, ncmd, sent, reply >>

\* Scraper.sign_in up to its first wait. A known user gets the registered
\* token and recreate_session, which ends as in WsReconnect; otherwise the
\* user is registered at once when remember_me, and the sign-in form is used.
sign_in_begin(s, u, r) ==
    IF KUHas(s.ku, u) THEN idle_refresh([s EXCEPT !.tok = KUGet(s.ku, u)])
    ELSE idle_refresh(IF r THEN [s EXCEPT !.ku = KUSet(s.ku, u, s.tok)] ELSE s)

WsLogin(c, u, r) ==
    /\ pc[c] = "login"
    /\ LET s == sign_in_begin(Cur(c), u, r)
       IN  IF KUHas(known_users, u)
           THEN /\ Commit(c, WsLeave(s))
                /\ CloseWith(c, CLOSE_INTERNAL, "Internal server error")
                /\ UNCHANGED << user, remember_me >>
           ELSE /\ Commit(c, s)
                /\ pc' = [pc EXCEPT ![c] = "sign_in"]
                /\ user' = [user EXCEPT ![c] = u]
                /\ remember_me' = [remember_me EXCEPT ![c] = r]
                /\ StayOpen
    /\ UNCHANGED << courses, duo_auth_code, key, ncmd, sent, reply >>

\* create_user's except branch: handle_sign_out(e.token.get_token()) hands a
\* str to handle_sign_out, whose scraper.sign_out() raises AttributeError.
\* Nothing is undone; connect's last handler closes the channel.
WsAuthFailed(c) ==
    /\ Commit(c, WsLeave(Cur(c)))
    /\ CloseWith(c, CLOSE_INTERNAL, "Internal server error")
    /\ LoginOver(c)
    /\ UNCHANGED << courses, key, ncmd, sent, reply >>

\* Scraper.sign_in raised UserAuthenticationException.
WsSignInFailed(c) == pc[c] = "sign_in" /\ WsAuthFailed(c)

\* begin_connection_loop: the request task and the heartbeat task start.
begin_connection_loop(s) == [s EXCEPT !.hb = "running"]

\* Scraper.sign_in landed on the homepage: cookies dumped, SUCCESS sent.
WsSignInNoDuo(c) ==
    /\ pc[c] = "sign_in"
    /\ LET s == begin_connection_loop(dump_cookies(Cur(c)))
       IN  /\ Commit(c, s)
           /\ Send(c, token_response(s.tok))
    /\ pc' = [pc EXCEPT ![c] = "serving"]
    /\ StayOpen
    /\ LoginOver(c)
    /\ UNCHANGED << courses, key, ncmd, reply >>

\* Scraper.sign_in returned a Duo code: PARTIAL_SUCCESS is sent and
\* Scraper.duo_auth starts without waiting for the client.
WsSignInDuo(c, code) ==
    /\ pc[c] = "sign_in"
    /\ Commit(c, idle_refresh(Cur(c)))
    /\ duo_auth_code' = [duo_auth_code EXCEPT ![c] = code]
    /\ Send(c, Envelope(PARTIAL_SUCCESS, code, << >>))
    /\ pc' = [pc EXCEPT ![c] = "duo_auth"]
    /\ StayOpen
    /\ UNCHANGED << courses, user, remember_me, key, ncmd, reply >>

WsDuoAuthPassed(c) ==
    /\ pc[c] = "duo_auth"
    /\ LET s == begin_connection_loop(duo_auth_ok(Cur(c), remember_me[c]))
       IN  /\ Commit(c, s)
           /\ Send(c, token_response(s.tok))
    /\ pc' = [pc EXCEPT ![c] = "serving"]
    /\ StayOpen
    /\ LoginOver(c)
    /\ UNCHANGED << courses, key, ncmd, reply >>

\* Scraper.duo_auth timed out.
WsDuoAuthTimedOut(c) == pc[c] = "duo_auth" /\ WsAuthFailed(c)

\* websocket.handle_search_classes: a receive of term, subject or class
\* number times out; the TimeoutError leaves the task group.
WsSearchTimeout(c) ==
    /\ pc[c] = "serving"
    /\ Commit(c, WsLeave(Cur(c)))
    /\ CloseWith(c, CLOSE_PROTOCOL, "Response timed out")
    /\ UNCHANGED << courses, user, remember_me, duo_auth_code, key, ncmd, sent, reply >>

\* A SUCCESS envelope that leaves the sections of the result out.
str_sections_blank(course) == Envelope(SUCCESS, "str", << >>)

\* str(result.get_sections()): the payload is the text of the mapping.
str_sections(course) == Envelope(SUCCESS, "str", get_sections(course.sections))

WsSearchHit(c, k) ==
    /\ Serving(c)
    /\ get_course_info(courses, k).present
    /\ Reply(c, str_sections(get_course_info(courses, k)))
    /\ Answered(c)
    /\ StayOpen
    /\ UNCHANGED << known_users, cookies, courses, driver_list, drivers, token,
                    scraper, active, heartbeat, idle, pc, user, remember_me,
                    duo_auth_code, key, sent >>

\* No row: schedule.search_classes starts on the connection's Scraper.
WsSearchMiss(c, k) ==
    /\ Serving(c)
    /\ ~get_course_info(courses, k).present
    /\ Commit(c, idle_refresh(Cur(c)))
    /\ pc' = [pc EXCEPT ![c] = "searching"]
    /\ key' = [key EXCEPT ![c] = k]
    /\ StayOpen
    /\ UNCHANGED << courses, user, remember_me, duo_auth_code, ncmd, sent, reply >>

WsSearchFound(c, r) ==
    /\ pc[c] = "searching"
    /\ courses' = upsert_course_info(courses, key[c], CourseOf(r))
    /\ Reply(c, str_sections(CourseOf(r)))
    /\ Answered(c)
    /\ key' = [key EXCEPT ![c] = "2024 CS 101"]
    /\ pc' = [pc EXCEPT ![c] = "serving"]
    /\ StayOpen
    /\ UNCHANGED << known_users, cookies, driver_list, drivers, token, scraper,
                    active, heartbeat, idle, user, remember_me, duo_auth_code, sent >>

\* ScheduleException: str(e) is sent as ERROR, nothing is stored.

\* An answer that hides the message of the exception.
schedule_error_hidden(e) == Envelope(ERROR, "Could not search classes", << >>)

\* send_websocket_response(websocket, ERROR, str(e))
schedule_error(e) == Envelope(ERROR, e, << >>)

WsSearchScheduleException(c, msg) ==
    /\ pc[c] = "searching"
    /\ Reply(c, schedule_error(msg))
    /\ Answered(c)
    /\ key' = [key EXCEPT ![c] = "2024 CS 101"]
    /\ pc' = [pc EXCEPT ![c] = "serving"]
    /\ StayOpen
    /\ UNCHANGED << known_users, cookies, courses, driver_list, drivers, token,
                    scraper, active, heartbeat, idle, user, remember_me,
                    duo_auth_code, sent >>

WsSearchWebDriverException(c) ==
    /\ pc[c] = "searching"
    /\ Reply(c, Envelope(ERROR, "Could not search classes", << >>))
    /\ Answered(c)
    /\ key' = [key EXCEPT ![c] = "2024 CS 101"]
    /\ pc' = [pc EXCEPT ![c] = "serving"]
    /\ StayOpen
    /\ UNCHANGED << known_users, cookies, courses, driver_list, drivers, token,
                    scraper, active, heartbeat, idle, user, remember_me,
                    duo_auth_code, sent >>

\* Scraper.sign_out: delete_session() is a coroutine that is never awaited;
\* the first registry entry with the token is deleted.
sign_out(s) == [s EXCEPT !.ku = KUDelFirst(s.ku, s.tok)]

\* process_requests: `await websocket.close()` inside the command loop. The
\* channel is closed by the request task itself; the heartbeat task of the
\* connection is still scheduled until the request task has returned.
ChannelClosed(c) ==
    /\ pc' = [pc EXCEPT ![c] = "closing"]
    /\ close_code' = [close_code EXCEPT ![c] = CLOSE_NORMAL]
    /\ close_reason' = [close_reason EXCEPT ![c] = ""]

\* SIGN OUT. For a registered token sign_out goes on to db.remove_cookies,
\* which db.py does not define: the AttributeError ends the connection
\* through connect's last handler. Otherwise the channel is closed normally.
WsSignOut(c) ==
    /\ pc[c] = "serving"
    /\ IF token[c] \in KUValues(known_users)
       THEN /\ Commit(c, WsLeave(sign_out(Cur(c))))
            /\ CloseWith(c, CLOSE_INTERNAL, "Internal server error")
       ELSE /\ Commit(c, sign_out(Cur(c)))
            /\ ChannelClosed(c)
    /\ UNCHANGED << courses, user, remember_me, duo_auth_code, key, ncmd, sent, reply >>

\* A QUIT that is acknowledged with an envelope before the channel is closed.
WsQuit_answered(c) ==
    /\ pc[c] = "serving"
    /\ ChannelClosed(c)
    /\ Reply(c, Envelope(SUCCESS, "", << >>))
    /\ Answered(c)
    /\ UNCHANGED << known_users, cookies, courses, driver_list, drivers, token,
                    scraper, active, heartbeat, idle, user, remember_me,
                    duo_auth_code, key, sent >>

WsQuit(c) ==
    /\ pc[c] = "serving"
    /\ ChannelClosed(c)
    /\ UNCHANGED << known_users, cookies, courses, driver_list, drivers, token,
                    scraper, active, heartbeat, idle, user, remember_me,
                    duo_auth_code, key, ncmd, sent, reply >>

\* begin_connection_loop after the request task has returned: asyncio.wait
\* gives it back as finished, the heartbeat task is cancelled and awaited,
\* the task group and then the `with TokenManager()` block are left.
WsLoopDone(c) ==
    /\ pc[c] = "closing"
    /\ Commit(c, WsLeave(Cur(c)))
    /\ pc' = [pc EXCEPT ![c] = "closed"]
    /\ StayOpen
    /\ UNCHANGED << courses, user, remember_me, duo_auth_code, key, ncmd, sent, reply >>

\* An unknown command that is accepted without complaint.
invalid_request_accepted == Envelope(SUCCESS, "", << >>)

\* process_requests, `case _`: the answer to any other message.
invalid_request == Envelope(ERROR, "Invalid request", << >>)

WsInvalidRequest(c) ==
    /\ Serving(c)
    /\ Reply(c, invalid_request)
    /\ Answered(c)
    /\ StayOpen
    /\ UNCHANGED << known_users, cookies, courses, driver_list, drivers, token,
                    scraper, active, heartbeat, idle, pc, user, remember_me,
                    duo_auth_code, key, sent >>

\* websocket.heartbeat: Scraper.verify_signed_on looks at the driver registered
\* for the token; a failed pulse raises SecurityError out of the task group.
\* A pulse check that never passes.
verify_signed_on_never(s, signed_on) == FALSE

\* Scraper.verify_signed_on: the browser registered under the token shows the
\* menu of a signed-on user; no browser under the token counts as signed off.
verify_signed_on(s, signed_on) == signed_on /\ s.dl[s.tok] # 0

WsHeartbeat(c, signed_on) ==
    /\ heartbeat[c] = "running"
    /\ IF verify_signed_on(Cur(c), signed_on)
       THEN UNCHANGED vars
       ELSE /\ Commit(c, TokenManager_exit([Cur(c) EXCEPT !.hb = "failed"]))
            /\ IF pc[c] = "closing"      \* close() on a closed channel does nothing
               THEN pc' = [pc EXCEPT ![c] = "closed"] /\ StayOpen
               ELSE CloseWith(c, CLOSE_PROTOCOL, "Dead session. Reauthenticate!")
            /\ UNCHANGED << courses, user, remember_me, duo_auth_code, key, ncmd,
                            sent, reply >>

WsNext ==
    \/ \E c \in Conns, path \in Paths : WsAccept(c, path)
    \/ \E c \in Conns : WsReconnectNoToken(c)
    \/ \E c \in Conns, t \in Tokens : WsReconnect(c, t)
    \/ \E c \in Conns : WsLoginTimeout(c)
    \/ \E c \in Conns, u \in Users, r \in BOOLEAN : WsLogin(c, u, r)
    \/ \E c \in Conns : WsSignInFailed(c)
    \/ \E c \in Conns : WsSignInNoDuo(c)
    \/ \E c \in Conns, code \in DuoCodes : WsSignInDuo(c, code)
    \/ \E c \in Conns : WsDuoAuthPassed(c)
    \/ \E c \in Conns : WsDuoAuthTimedOut(c)
    \/ \E c \in Conns : WsSearchTimeout(c)
    \/ \E c \in Conns, k \in Keys : WsSearchHit(c, k)
    \/ \E c \in Conns, k \in Keys : WsSearchMiss(c, k)
    \/ \E c \in Conns, r \in QueryResults : WsSearchFound(c, r)
    \/ \E c \in Conns, msg \in ScheduleMessages : WsSearchScheduleException(c, msg)
    \/ \E c \in Conns : WsSearchWebDriverException(c)
    \/ \E c \in Conns : WsSignOut(c)
    \/ \E c \in Conns : WsQuit(c)
    \/ \E c \in Conns : WsLoopDone(c)
    \/ \E c \in Conns : WsInvalidRequest(c)
    \/ \E c \in Conns, signed_on \in BOOLEAN : WsHeartbeat(c, signed_on)

WsSpec == WsInit /\ [][WsNext]_vars

(********************************* claims **********************************)
\* C1: in every reachable state and for every token, at most one live driver
\* exists, whatever the interleaving of logins, reconnects, wakes and
\* heartbeat evictions.
C1_AtMostOneLiveHandle == \A t \in Tokens : Cardinality(LiveFor(t)) <= 1

\* C2: a reconnect with a token that is not registered is refused with
\* "Invalid token", and the connection it came on has started no driver.
C2_InvalidTokenCreatesNoHandle ==
    \A c \in Conns :
        (pc[c] = "closed" /\ close_reason[c] = "Invalid token") =>
            /\ close_code[c] = 1002
            /\ scraper[c] = NoScraper

\* C3: on a heartbeat pass of a session that holds a handle, the handle is
\* evicted (its driver released and no longer registered for the token) and
\* the heartbeat task ends if and only if the handle has been idle for more
\* than 300 seconds; otherwise nothing changes and the heartbeat goes on.
C3_HeartbeatEvictsIffIdle ==
    [][\A c \in Conns :
         (Heartbeat(c) /\ scraper[c] > 0) =>
            IF idle[c] > 300
            THEN /\ ~drivers'[scraper[c]].live
                 /\ driver_list'[token[c]] # scraper[c]
                 /\ scraper'[c] = Deleted
                 /\ heartbeat'[c] # "running"
            ELSE /\ scraper'[c] = scraper[c]
                 /\ drivers' = drivers
                 /\ heartbeat'[c] = "running"]_vars

\* C4: after a heartbeat eviction, the next cache-miss search of the session
\* recreates exactly one handle for the same token, leaves the session active
\* with a running heartbeat and runs the query.
C4_WakeRecreatesOneHandle ==
    [][\A c \in Conns, k \in Keys :
         (SearchReceived(c, k) /\ scraper[c] = Deleted /\ ~courses[k].present) =>
            /\ token'[c] = token[c]
            /\ Cardinality({d \in 1..Len(drivers') :
                               drivers'[d].live /\ drivers'[d].token = token[c]}) = 1
            /\ active'[c]
            /\ heartbeat'[c] = "running"
            /\ pc'[c] = "searching"]_vars

C6_SignOutIdempotent ==
    \A c \in Conns :
        pc[c] = "serving" =>
            LET s1 == handle_sign_out(Cur(c))
                s2 == handle_sign_out(s1)
            IN  /\ s1.tok \notin KUValues(s1.ku)
                /\ \A d \in 1..Len(s1.drv) : s1.drv[d].token = s1.tok => ~s1.drv[d].live
                /\ s1.dl[s1.tok] = 0
                /\ s2 = s1

C8_CachedNoResultsIsError ==
    [][\A c \in Conns, k \in Keys :
         (SearchReceived(c, k) /\ courses[k] = EmptyCourse) =>
            /\ UNCHANGED << drivers, driver_list, scraper, active, heartbeat >>
            /\ reply'[c] = Envelope(ERROR, "No results found", << >>)]_vars

\* C9: a cache-miss SEARCH whose query returns sections answers with the
\* mapping label -> [location, instructor] of those sections and leaves the
\* cache holding exactly that result under the key.
C9_MissStoresResult ==
    [][\A c \in Conns, r \in QueryResults :
         SearchFound(c, r) =>
            /\ reply'[c] = Envelope(SUCCESS, "", get_sections(r))
            /\ courses'[key[c]] = CourseOf(r)]_vars

C11_QuitKeepsRegistry ==
    [][\A c \in Conns :
         (Quit(c) /\ token[c] \in KUValues(known_users)) =>
            /\ known_users' = known_users
            /\ cookies' = cookies
            /\ reconnect_ok([ku |-> known_users', tok |-> token[c]])]_vars

\* A remembered session has quit and another connection is served under the
\* same token, which is still registered.
C11_Witness ==
    \E c \in Conns, b \in Conns :
        /\ c # b
        /\ pc[c] = "closed" /\ close_code[c] = CLOSE_NORMAL /\ token[c] = "t1"
        /\ pc[b] = "serving" /\ token[b] = "t1"
        /\ sent[b] = << Envelope(SUCCESS, "t1", << >>) >>
        /\ reconnect_ok([ku |-> known_users, tok |-> "t1"])

C14_SearchTimeoutSendsError ==
    [][\A c \in Conns :
         WsSearchTimeout(c) =>
            /\ pc'[c] = "closed"
            /\ reply'[c].status = ERROR
            /\ reply'[c].payload.text = close_reason'[c]]_vars

\* C15: a message that is none of SEARCH, SIGN OUT and QUIT is answered with
\* one ERROR envelope; the channel stays open, the registry, the cookies, the
\* cache, the token and the browser of the connection are what they were,
\* and the loop is back at reading the next command.
C15_InvalidRequestChangesNothing ==
    [][\A c \in Conns :
         WsInvalidRequest(c) =>
            /\ reply'[c].status = ERROR
            /\ ncmd'[c] = ncmd[c] + 1
            /\ pc'[c] = "serving" /\ close_code'[c] = 0
            /\ UNCHANGED << known_users, cookies, courses, driver_list, drivers,
                            token, scraper, active, heartbeat, idle >>]_vars

\* Two unknown messages in a row were answered on a connection whose token
\* is registered, and the connection is still served.
C15_Witness ==
    \E c \in Conns :
        /\ pc[c] = "serving" /\ ncmd[c] = 2
        /\ reply[c] = Envelope(ERROR, "Invalid request", << >>)
        /\ token[c] \in KUValues(known_users)
        /\ scraper[c] # NoScraper

\* C16: a connection whose path is neither /login nor /reconnect is closed
\* at once with code 1002: nothing is read from the channel, no sign-in is
\* started, nothing is registered and no command is answered.
C16_InvalidPathClosed ==
    [][\A c \in Conns : \A path \in Paths \ {"/login", "/reconnect"} :
         WsAccept(c, path) =>
            /\ pc'[c] = "closed"
            /\ close_code'[c] = CLOSE_PROTOCOL
            /\ UNCHANGED << known_users, cookies, courses, user, remember_me,
                            duo_auth_code, key, ncmd, sent, reply >>]_vars

\* A connection was turned away for its path before anything was exchanged.
C16_Witness ==
    \E c \in Conns :
        /\ pc[c] = "closed"
        /\ close_code[c] = CLOSE_PROTOCOL /\ close_reason[c] = "Invalid path"
        /\ sent[c] = << >> /\ reply[c] = NoReply /\ ncmd[c] = 0

\* C17: every identity in the registry has at most one live browser under
\* its token at any instant, also when two connections log the same identity
\* in at the same time.
C17_OneLiveBrowserPerIdentity ==
    \A u \in Users :
        KUHas(known_users, u) => Cardinality(LiveFor(KUGet(known_users, u))) <= 1

\* C18: in every reachable registry a token is the value of at most one
\* identity.
C18_TokenOfOneIdentity ==
    \A i \in 1..Len(known_users), j \in 1..Len(known_users) :
        known_users[i].token = known_users[j].token => i = j

\* C19: a session is constructed with a token of its own: two sessions that
\* were constructed for two connections, and have not been given a token
\* since, never hold the same one.
C19_FreshTokenPerSession ==
    \A c \in Conns, b \in Conns :
        (c # b /\ pc[c] = "sign_in" /\ pc[b] = "sign_in") => token[c] # token[b]

\* C20: a login that fails, at the first factor or at the second, closes the
\* connection with a reason, leaves no live browser under the token of the
\* attempt and leaves the identity that tried out of the registry.
C20_FailedLoginLeavesNothing ==
    [][\A c \in Conns :
         (SignInFailed(c) \/ DuoAuthTimedOut(c)) =>
            /\ pc'[c] = "closed" /\ close_reason'[c] # ""
            /\ \A d \in 1..Len(drivers') :
                  drivers'[d].token = token[c] => ~drivers'[d].live
            /\ ~KUHas(known_users', user[c])]_vars

\* C21: in a /login with a second factor, Scraper.duo_auth starts only from
\* the position in which the layer, having sent PARTIAL_SUCCESS, was waiting
\* for one more message of the client: never before that message has arrived.
C21_DuoAuthAfterClientMessage ==
    [][\A c \in Conns :
         (pc'[c] = "duo_auth" /\ pc[c] # "duo_auth") => pc[c] = "duo_ack"]_vars

\* C22: on every connection PARTIAL_SUCCESS is sent at most once: only as the
\* first envelope of a /login handshake whose sign-in gave a Duo code, so
\* before the SUCCESS envelope with the token; the handshake envelopes are
\* only ever appended to, and no command is answered with PARTIAL_SUCCESS.
C22_PartialSuccessOnceInLogin ==
    [][\A c \in Conns :
         /\ reply'[c].status # PARTIAL_SUCCESS
         /\ sent'[c] # sent[c] =>
               /\ Len(sent'[c]) = Len(sent[c]) + 1
               /\ SubSeq(sent'[c], 1, Len(sent[c])) = sent[c]
               /\ sent'[c][Len(sent'[c])].status = PARTIAL_SUCCESS =>
                     /\ pc[c] = "sign_in" /\ sent[c] = << >>
                     /\ sent'[c][1].payload.text \in DuoCodes
                     /\ \E code \in DuoCodes : WsSignInDuo(c, code)]_vars

\* A /login went through the challenge: PARTIAL_SUCCESS with the Duo code,
\* then SUCCESS with the token, and the connection is served.
C22_Witness ==
    \E c \in Conns, code \in DuoCodes :
        /\ pc[c] = "serving"
        /\ sent[c] = << Envelope(PARTIAL_SUCCESS, code, << >>),
                        Envelope(SUCCESS, token[c], << >>) >>

\* C23: a /reconnect handshake ends in one of two ways: the token that the
\* client sent is registered and comes back in a SUCCESS envelope on a
\* connection that is then served, or nothing is sent and the connection is
\* closed with the code of an authentication error.
C23_ReconnectSuccessOrAuthError ==
    [][\A c \in Conns : \A t \in Tokens :
         WsReconnect(c, t) =>
            \/ /\ sent'[c] = Append(sent[c], Envelope(SUCCESS, t, << >>))
               /\ t \in KUValues(known_users)
               /\ pc'[c] = "serving"
            \/ /\ sent'[c] = sent[c]
               /\ pc'[c] = "closed" /\ close_code'[c] = CLOSE_PROTOCOL]_vars

\* C24: a reconnect with a registered token reattaches a browser to the
\* session and checks on it that the remote login is alive: when the
\* handshake has gone through, the session holds a live browser of its token;
\* when it has not, no live browser is left under the token.
C24_ReconnectChecksLiveness ==
    [][\A c \in Conns : \A t \in Tokens :
         (Reconnect(c, t) /\ t \in KUValues(known_users)) =>
            IF pc'[c] = "serving"
            THEN /\ scraper'[c] \in 1..Len(drivers')
                 /\ drivers'[scraper'[c]].live
                 /\ drivers'[scraper'[c]].token = t
            ELSE \A d \in 1..Len(drivers') :
                    drivers'[d].token = t => ~drivers'[d].live]_vars

\* C25 as stated: the task that did not finish first has stopped before the
\* channel is closed: no channel is closed while the heartbeat of its
\* connection is still scheduled.
C25_StoppedBeforeChannelClosed ==
    \A c \in Conns : close_code[c] # 0 => heartbeat[c] # "running"

\* C25, amended: whichever of the command loop and the heartbeat finishes
\* first, the other is cancelled, and both have stopped when the session is
\* released: the connection ends with its heartbeat cancelled or failed, and
\* after the release no step of the command loop or of the heartbeat changes
\* anything of the connection. (On QUIT and SIGN OUT the command loop closes
\* the channel itself, before the heartbeat is cancelled.)
C25_StoppedBeforeRelease ==
    [][\A c \in Conns :
         /\ (pc'[c] = "closed" /\ pc[c] \in {"serving", "searching", "closing"}) =>
               heartbeat'[c] \in {"cancelled", "failed"}
         /\ pc'[c] = "closed" => heartbeat'[c] # "running"
         /\ pc[c] = "closed" =>
               /\ pc'[c] = "closed"
               /\ UNCHANGED << token[c], scraper[c], active[c], heartbeat[c],
                               idle[c], ncmd[c], sent[c], reply[c],
                               close_code[c], close_reason[c] >>]_vars

\* One connection ended by QUIT or SIGN OUT with its heartbeat cancelled,
\* another one ended by its heartbeat with the command loop stopped.
C25_Witness ==
    \E c \in Conns, b \in Conns :
        /\ pc[c] = "closed" /\ close_code[c] = CLOSE_NORMAL
        /\ heartbeat[c] = "cancelled"
        /\ pc[b] = "closed" /\ heartbeat[b] = "failed"
        /\ close_reason[b] = "Dead session. Reauthenticate!"

\* C26: the server closes a connection with the code of the cause: 1002 and
\* a reason for a bad path, a missing or invalid token, a failed sign-in and
\* a read that timed out; a normal close for QUIT and SIGN OUT.
C26_CloseCodeByCause ==
    [][\A c \in Conns :
         /\ ( \/ \E path \in Paths \ {"/login", "/reconnect"} : WsAccept(c, path)
              \/ WsReconnectNoToken(c)
              \/ \E t \in Tokens \ KUValues(known_users) : WsReconnect(c, t)
              \/ WsSignInFailed(c) \/ WsDuoAuthTimedOut(c)
              \/ WsLoginTimeout(c) \/ WsSearchTimeout(c) ) =>
                 /\ close_code'[c] = CLOSE_PROTOCOL
                 /\ close_reason'[c] # ""
         /\ (WsQuit(c) \/ WsSignOut(c)) => close_code'[c] = CLOSE_NORMAL]_vars

\* C27: when a connection has ended with the internal-error code, the browser
\* that was attached to it is gone: it is not live any more.
C27_InternalErrorEvictsHandle ==
    \A c \in Conns :
        (pc[c] = "closed" /\ close_code[c] = CLOSE_INTERNAL /\ scraper[c] > 0) =>
            ~drivers[scraper[c]].live

C29_StaleSignOutTouchesNothing ==
    [][\A c \in Conns, b \in Conns :
         ( /\ c < b /\ token[c] = token[b]      \* c was accepted before b
           /\ pc[c] = "serving" /\ pc[b] = "serving"
           /\ scraper[b] > 0 /\ driver_list[token[b]] = scraper[b]
           /\ scraper[c] # scraper[b]
           /\ SignOut(c) ) =>
              /\ known_users' = known_users
              /\ cookies' = cookies
              /\ drivers' = drivers
              /\ scraper'[b] = scraper[b]]_vars

\* C30: when SIGN OUT has been processed the token of the session is the
\* value of no identity, so that a later reconnect with it is turned away;
\* no live browser is left under the token; the loop has ended and the
\* channel is closed normally.
C30_SignOutRemovesEverything ==
    [][\A c \in Conns :
         SignOut(c) =>
            /\ ~reconnect_ok([ku |-> known_users', tok |-> token[c]])
            /\ \A d \in 1..Len(drivers') :
                  drivers'[d].token = token[c] => ~drivers'[d].live
            /\ pc'[c] = "closed" /\ close_code'[c] = CLOSE_NORMAL]_vars

\* C31: a /login of an identity that is registered is a re-login: the client
\* gets the registered token back in a SUCCESS envelope and is served; no
\* browser is started for it and the registry is what it was.
C31_KnownUserLoginIsReconnect ==
    [][\A c \in Conns, u \in Users, r \in BOOLEAN :
         (WsLogin(c, u, r) /\ KUHas(known_users, u)) =>
            /\ sent'[c] = Append(sent[c], Envelope(SUCCESS, KUGet(known_users, u), << >>))
            /\ pc'[c] = "serving"
            /\ known_users' = known_users
            /\ drivers' = drivers]_vars

\* C32: a reconnect that succeeded leaves the session active before the
\* first command is read: it holds a live browser of the reconnected token
\* and its heartbeat is running.
C32_ReconnectedSessionActive ==
    [][\A c \in Conns : \A t \in Tokens :
         (Reconnect(c, t) /\ pc'[c] = "serving") =>
            /\ active'[c]
            /\ heartbeat'[c] = "running"
            /\ scraper'[c] > 0
            /\ LiveFor(t)' # {}]_vars

C35_FailedSearchWritesNothing ==
    [][\A c \in Conns :
         ( \/ SearchScheduleRaised(c, "Search failed unexpectedly")
           \/ SearchWebDriverException(c) ) => courses' = courses]_vars

\* C36: when the wake of a search finds the remote login expired, the session
\* is signed out and the connection ends: no envelope answers the command,
\* the channel is closed with the code of an authentication error, the
\* session is inactive with its heartbeat stopped, and no live browser is
\* left under its token.
C36_ExpiredWakeSignsOut ==
    [][\A c \in Conns, k \in Keys, valid \in BOOLEAN :
         SearchWakeExpired(c, k, valid) =>
            /\ pc'[c] = "closed" /\ close_code'[c] = CLOSE_PROTOCOL
            /\ reply'[c] = reply[c] /\ ncmd'[c] = ncmd[c]
            /\ ~active'[c] /\ heartbeat'[c] # "running"
            /\ \A d \in 1..Len(drivers') :
                  drivers'[d].token = token[c] => ~drivers'[d].live]_vars

\* C37: a pulse check of the heartbeat on an open connection that finds the
\* session signed off ends the heartbeat with an error, stops the command
\* loop without an answer and closes the connection with code 1002 and the
\* reason of the dead session; a pulse check that passes changes nothing, so
\* the heartbeat never ends a connection whose checks all pass.
C37_DeadSessionClosesConnection ==
    [][\A c \in Conns, signed_on \in BOOLEAN :
         (WsHeartbeat(c, signed_on) /\ close_code[c] = 0) =>
            IF signed_on /\ driver_list[token[c]] # 0
            THEN UNCHANGED vars
            ELSE /\ heartbeat'[c] = "failed"
                 /\ pc'[c] = "closed"
                 /\ close_code'[c] = CLOSE_PROTOCOL
                 /\ close_reason'[c] = "Dead session. Reauthenticate!"
                 /\ reply'[c] = reply[c] /\ sent'[c] = sent[c]]_vars

\* A served connection was ended by its heartbeat.
C37_Witness ==
    \E c \in Conns :
        /\ pc[c] = "closed" /\ heartbeat[c] = "failed"
        /\ close_code[c] = CLOSE_PROTOCOL
        /\ close_reason[c] = "Dead session. Reauthenticate!"
        /\ sent[c] # << >>

\* C38: a handshake read that runs into its timeout (identity, credentials or
\* remember flag of /login, the token of /reconnect) ends the connection with
\* code 1002, and the attempt leaves nothing behind: the registry is what it
\* was and no browser of the connection is live.
C38_HandshakeTimeoutLeavesNothing ==
    [][\A c \in Conns :
         (WsLoginTimeout(c) \/ WsReconnectNoToken(c)) =>
            /\ pc'[c] = "closed" /\ close_code'[c] = CLOSE_PROTOCOL
            /\ known_users' = known_users
            /\ \A d \in 1..Len(drivers') :
                  (d = scraper[c] \/ d = scraper'[c]) => ~drivers'[d].live]_vars

\* C39: when a session is released at the end of its connection (QUIT), a
\* session whose token is not registered is signed out in full: its token is
\* in no registry entry, no live browser is left under it and its heartbeat
\* is stopped; a session whose token is registered keeps its entry; either
\* way the session is not active afterwards.
C39_ReleaseSignsOutUnremembered ==
    [][\A c \in Conns :
         Quit(c) =>
            /\ ~active'[c] /\ heartbeat'[c] # "running"
            /\ IF token[c] \in KUValues(known_users)
               THEN known_users' = known_users
               ELSE /\ token[c] \notin KUValues(known_users')
                    /\ \A d \in 1..Len(drivers') :
                          drivers'[d].token = token[c] => ~drivers'[d].live]_vars

====
